---- MODULE Spec2Model ----
(***************************************************************************)
(* The task synchronisation of claude-code-commands: utils/todo_sync.py    *)
(* (tasks.yml -> todo.md), utils/task_sanitize.py (goal sanitizer) and     *)
(* utils/todo_validation.py (validators, error redaction).                 *)
(*                                                                         *)
(* A text is a sequence of tokens.  A token is one character ("a", " ",    *)
(* "\n", "#", ...) or one fixed piece of template text (" | Priority: ",   *)
(* the sync date, a date) that holds none of the characters the program's  *)
(* patterns look for, so every pattern is matched character by character.  *)
(***************************************************************************)
EXTENDS Integers, Sequences, FiniteSets, TLC

VARIABLES
    tasksYml,   \* the task source file tasks.yml
    todoMd,     \* the checklist document todo.md
    last,       \* what the last run of sync_tasks did and printed
    log,        \* per run, the task identifiers whose lines the run wrote
    dirty,      \* the task source was changed since the last run
    san,        \* the standalone sanitizer: input, output, warnings
    call,       \* one call of a validator or of the watermark scanner: input, outcome
    proc        \* per instance of sync_tasks run as a process: where it is, what it did

vars == <<tasksYml, todoMd, last, log, dirty, san, call, proc>>

---------------------------------------------------------------------------
(* Bounds of the model *)

MaxPieces == 3      \* a goal text is a concatenation of at most this many pieces
MaxTasks == 2       \* tasks in the task source
MaxRuns == 2        \* runs of sync_tasks in one behaviour
MaxHead == 1        \* lines of a long checklist document before its blank lines
MaxTail == 2        \* lines of a long checklist document after its blank lines
MaxTags == 2        \* tokens of a tag string
MaxSegs == 3        \* components of a path given to validate_path
MaxProcs == 2       \* instances of sync_tasks run as processes on one working directory

---------------------------------------------------------------------------
(* Characters and strings *)

Digits == {"0", "1", "2", "3", "4", "5", "6", "7", "8", "9"}

DigitSeq == <<"0", "1", "2", "3", "4", "5", "6", "7", "8", "9">>

\* the characters of the model's alphabet that Python's \s and str.split see as white space
Whitespace == {" ", "\n", "\r", "\t"}

Range(s) == {s[i] : i \in 1..Len(s)}

Count(s, c) == Cardinality({i \in 1..Len(s) : s[i] = c})

\* pattern p occurs in s at index i
StartsAt(s, i, p) == i + Len(p) - 1 <= Len(s) /\ SubSeq(s, i, i + Len(p) - 1) = p

Occurs(s, p) == \E i \in 1..Len(s) : StartsAt(s, i, p)

\* the end of the run of digits that starts at index j (\d+ is greedy)
DigitsEnd(s, j) ==
    CHOOSE k \in j..Len(s) :
        /\ \A m \in j..k : s[m] \in Digits
        /\ (k = Len(s) \/ s[k + 1] \notin Digits)

DigitVal(c) == (CHOOSE n \in 1..10 : DigitSeq[n] = c) - 1

RECURSIVE ToInt(_)
\* int() of a string of decimal digits
ToInt(ds) ==
    IF ds = <<>> THEN 0
    ELSE ToInt(SubSeq(ds, 1, Len(ds) - 1)) * 10 + DigitVal(ds[Len(ds)])

Rep(c, n) == [i \in 1..n |-> c]

\* F applied to the value of v, which is computed once
Bind(v, F(_)) == CHOOSE r \in {F(x) : x \in {v}} : TRUE

\* the tokens of s at the indices in keep, in order
KeepAt(s, keep) ==
    LET idx == SelectSeq([i \in 1..Len(s) |-> i], LAMBDA i : i \in keep)
    IN  [k \in 1..Len(idx) |-> s[idx[k]]]

RECURSIVE Concat(_)
Concat(ss) == IF ss = <<>> THEN <<>> ELSE Head(ss) \o Concat(Tail(ss))

SeqsUpTo(S, n) == UNION {[1..k -> S] : k \in 0..n}

HashTask == <<"#", "t", "a", "s", "k", "-">>

---------------------------------------------------------------------------
(* utils/task_sanitize.py: sanitize_goal *)

MAX_LENGTH == 200

\* (the token "backquote" stands for the grave accent character)
dangerous_chars == <<";", "|", "&", "$", "backquote", "<", ">">>

\* goal.replace('\n', ' ').replace('\r', ' ')
ReplaceNewlines(goal) ==
    [i \in 1..Len(goal) |-> IF goal[i] \in {"\n", "\r"} THEN " " ELSE goal[i]]

\* the pattern - \[[x ]\] matches at index i
CheckboxAt(s, i) ==
    /\ i + 4 <= Len(s)
    /\ s[i] = "-" /\ s[i + 1] = " " /\ s[i + 2] = "["
    /\ s[i + 3] \in {"x", " "} /\ s[i + 4] = "]"

\* re.sub(r'- \[[x ]\]', '', goal): one pass over the input that removes every
\* match (two matches never overlap: a match holds "-" only as its first
\* character); what the removal joins is not looked at again.
SubCheckbox(s) ==
    KeepAt(s, {i \in 1..Len(s) : ~ \E j \in (i - 4)..i : j >= 1 /\ CheckboxAt(s, j)})

\* the pattern #task-\d+ matches at index i
HashtagAt(s, i) ==
    /\ StartsAt(s, i, HashTask)
    /\ i + 6 <= Len(s)
    /\ s[i + 6] \in Digits

\* re.sub(r'#task-\d+', '', goal): one pass over the input that removes every
\* match with all its digits (two matches never overlap: a match holds "#"
\* only as its first character); what the removal joins is not looked at again.
SubHashtag(s) ==
    KeepAt(s, {i \in 1..Len(s) :
                  ~ \E j \in 1..i : HashtagAt(s, j) /\ i <= DigitsEnd(s, j + 6)})

\* goal.replace(char, '')
RemoveCharFirstOnly(goal, char) ==
    IF char \notin Range(goal) THEN goal
    ELSE LET i == CHOOSE k \in 1..Len(goal) :
                      goal[k] = char /\ \A m \in 1..(k - 1) : goal[m] # char
         IN  SubSeq(goal, 1, i - 1) \o SubSeq(goal, i + 1, Len(goal))

RemoveChar(goal, char) == SelectSeq(goal, LAMBDA c : c # char)

RECURSIVE DangerLoop(_, _, _)
\* for char in dangerous_chars: if char in goal: warn, remove
DangerLoop(k, goal, warnings) ==
    IF k > Len(dangerous_chars) THEN [goal |-> goal, warnings |-> warnings]
    ELSE LET char == dangerous_chars[k]
         IN  IF char \in Range(goal)
             THEN DangerLoop(k + 1, RemoveChar(goal, char), Append(warnings, char))
             ELSE DangerLoop(k + 1, goal, warnings)

\* re.sub(r'\s+', ' ', goal): every run of white space becomes one space
CollapseSpaces(s) ==
    LET first == KeepAt(s, {i \in 1..Len(s) :
                              s[i] \in Whitespace => (i = 1 \/ s[i - 1] \notin Whitespace)})
    IN  [i \in 1..Len(first) |-> IF first[i] \in Whitespace THEN " " ELSE first[i]]

Ellipsis == <<".", ".", ".">>

\* if len(goal) > MAX_LENGTH: goal = goal[:MAX_LENGTH] + "..."
Truncate(goal) ==
    IF Len(goal) > MAX_LENGTH
    THEN SubSeq(goal, 1, MAX_LENGTH) \o Ellipsis
    ELSE goal

\* str.strip()
Strip(s) ==
    LET keep == {i \in 1..Len(s) : s[i] \notin Whitespace}
    IN  IF keep = {} THEN <<>>
        ELSE SubSeq(s, CHOOSE i \in keep : \A j \in keep : i <= j,
                       CHOOSE i \in keep : \A j \in keep : i >= j)

\* sanitize_goal on a text: the goal it returns, the warnings it prints
\* (one token per warning: the character, or "truncated"), and the goal
\* as the loop over dangerous_chars met it.
SanitizeText(goal) ==
    IF goal = <<>> THEN [goal |-> <<>>, warnings |-> <<>>, atDanger |-> <<>>]
    ELSE LET g1 == ReplaceNewlines(goal)
             g2 == SubHashtag(SubCheckbox(g1))
             d  == DangerLoop(1, g2, <<>>)
             g4 == CollapseSpaces(d.goal)
             g5 == Truncate(g4)
             w5 == IF Len(g4) > MAX_LENGTH
                   THEN Append(d.warnings, "truncated") ELSE d.warnings
         IN  [goal |-> Strip(g5), warnings |-> w5, atDanger |-> g2]

\* the standalone sanitizer before it is given a text
SanIdle == [pass |-> 0, input |-> <<>>, goal |-> <<>>, warnings |-> <<>>,
            atDanger |-> <<>>, first |-> <<>>]

\* no validator has been called
NoCall == [fn |-> "none", done |-> FALSE]

Procs == 1..MaxProcs

\* an instance of sync_tasks that has not been started
IdleProc == [pc |-> "idle", peers |-> [q \in Procs |-> "idle"], stage |-> "none",
             exc |-> "none", how |-> "none", exit |-> 0,
             wm |-> 0, selected |-> <<>>, written |-> <<>>]

NoProcs == [p \in Procs |-> IdleProc]

---------------------------------------------------------------------------
(* Values of a task record's fields, as yaml.safe_load returns them *)

Absent == [ty |-> "absent", s |-> <<>>]       \* the key is not in the mapping
None == [ty |-> "none", s |-> <<>>]           \* the key has no value
Str(s) == [ty |-> "str", s |-> s]
Num(s) == [ty |-> "int", s |-> s]             \* an integer, s its decimal digits
Time(s) == [ty |-> "time", s |-> s]           \* an unquoted timestamp: a datetime, s its str()

\* bool(v), with an absent key read through dict.get
Truthy(v) ==
    CASE v.ty = "str" -> v.s # <<>>
      [] v.ty = "int" -> ToInt(v.s) # 0
      [] v.ty = "time" -> TRUE
      [] OTHER -> FALSE

\* str(v)
PyStr(v) == IF v.ty = "none" THEN <<"N", "o", "n", "e">> ELSE v.s

\* dict.get(key, default)
Get(v, default) == IF v.ty = "absent" THEN default ELSE v

Lower == {"a", "b", "c", "d", "e", "f", "g", "h", "i", "j", "k", "l", "m",
          "n", "o", "p", "q", "r", "s", "t", "u", "v", "w", "x", "y", "z"}

Upper == {"A", "B", "C", "D", "E", "F", "G", "H", "I", "J", "K", "L", "M",
          "N", "O", "P", "Q", "R", "S", "T", "U", "V", "W", "X", "Y", "Z"}

TaskDash == <<"t", "a", "s", "k", "-">>

---------------------------------------------------------------------------
(* utils/todo_validation.py *)

\* re.match(r'^task-\d+$', task_id): $ also matches before a final line feed
ValidTaskId(s) ==
    /\ StartsAt(s, 1, TaskDash)
    /\ Len(s) >= 6
    /\ s[6] \in Digits
    /\ LET e == DigitsEnd(s, 6)
       IN  e = Len(s) \/ (e = Len(s) - 1 /\ s[Len(s)] = "\n")

\* the components of a path: what stands between its slashes
SplitSlash(s) ==
    Bind([i \in 1..Len(s) |-> i], LAMBDA idx :
    Bind(SelectSeq(idx, LAMBDA i : s[i] # "/" /\ (i = 1 \/ s[i - 1] = "/")), LAMBDA from :
    Bind(SelectSeq(idx, LAMBDA i : s[i] # "/" /\ (i = Len(s) \/ s[i + 1] = "/")), LAMBDA to :
        [k \in 1..Len(from) |-> SubSeq(s, from[k], to[k])])))

\* the path of a sequence of components below the root
JoinSlash(segs) ==
    IF segs = <<>> THEN <<"/">> ELSE Concat([k \in 1..Len(segs) |-> <<"/">> \o segs[k]])

\* os.getcwd(): the project root, a directory /p
Cwd == <<"/", "p">>

\* the symbolic links of the file system: /p/out -> /e, /p/lg -> /p/.git
Links ==
    ( <<<<"p">>, <<"o", "u", "t">>>> :> <<<<"e">>>> )
    @@ ( <<<<"p">>, <<"l", "g">>>> :> <<<<"p">>, <<".", "g", "i", "t">>>> )

\* os.path.abspath(path): the path below the working directory unless it
\* begins with a slash, without empty and "." components (a path given to it
\* here holds no ".." component)
AbsPath(path) ==
    SelectSeq((IF path # <<>> /\ path[1] = "/" THEN <<>> ELSE SplitSlash(Cwd))
              \o SplitSlash(path),
              LAMBDA seg : seg # <<".">>)

RECURSIVE RealPath(_, _, _)
\* os.path.realpath: component by component, a symbolic link is replaced by
\* its target; a component that does not exist is kept
RealPath(segs, k, cur) ==
    IF k > Len(segs) THEN cur
    ELSE Bind(Append(cur, segs[k]), LAMBDA next :
             RealPath(segs, k + 1, IF next \in DOMAIN Links THEN Links[next] ELSE next))

\* real_path.startswith(cwd)
StartsWithCwd(real) == StartsAt(real, 1, Cwd)

\* '/.git/' in real_path or real_path.endswith('/.git')
InDotGit(real) ==
    \/ Occurs(real, <<"/", ".", "g", "i", "t", "/">>)
    \/ (Len(real) >= 5 /\ SubSeq(real, Len(real) - 4, Len(real)) = <<"/", ".", "g", "i", "t">>)

\* validate_path(path): the resolved path, or ValueError
validate_path(path) ==
    IF \E i \in 1..(Len(path) - 1) : path[i] = "." /\ path[i + 1] = "."
    THEN [exc |-> "ValueError", msg |-> "Path cannot contain ..", path |-> <<>>]
    ELSE Bind(JoinSlash(RealPath(AbsPath(path), 1, <<>>)), LAMBDA real_path :
             IF ~ StartsWithCwd(real_path)
             THEN [exc |-> "ValueError", msg |-> "Path outside project", path |-> <<>>]
             ELSE IF InDotGit(real_path)
             THEN [exc |-> "ValueError", msg |-> ".git access denied", path |-> <<>>]
             ELSE [exc |-> "none", msg |-> "", path |-> real_path])

\* validate_task_id(task_id): the identifier, or ValueError
validate_task_id(s) ==
    IF ValidTaskId(s) THEN [exc |-> "none", id |-> s]
    ELSE [exc |-> "ValueError", id |-> s]

\* safe_error_message(error, context): its last re.sub has the replacement
\* template '<home>\\', a lone backslash at the end, which re rejects when it
\* compiles the template, before it looks at msg: the call raises re.error
\* for every error and context.
safe_error_message(context) == [exc |-> "re.error", context |-> context]

---------------------------------------------------------------------------
(* The tag sanitizer: sanitize_tags is imported from task_sanitize by      *)
(* append_new_tasks and is not defined there; it is modelled on the        *)
(* specification's contract of the tag sanitizer.                          *)

MAX_TAG_LENGTH == 32

TagChars == Lower \cup Upper \cup Digits \cup {"_", "-"}

\* str.split(): the tokens between runs of white space
Split(s) ==
    Bind([i \in 1..Len(s) |-> i], LAMBDA idx :
    Bind(SelectSeq(idx, LAMBDA i : s[i] \notin Whitespace
                                   /\ (i = 1 \/ s[i - 1] \in Whitespace)), LAMBDA from :
    Bind(SelectSeq(idx, LAMBDA i : s[i] \notin Whitespace
                                   /\ (i = Len(s) \/ s[i + 1] \in Whitespace)), LAMBDA to :
        [k \in 1..Len(from) |-> SubSeq(s, from[k], to[k])])))

ValidTag(tag) ==
    /\ tag # <<>>
    /\ \A i \in 1..Len(tag) : tag[i] \in TagChars
    /\ Len(tag) <= MAX_TAG_LENGTH

\* validate_tags(tags) of todo_validation: the tag string, or ValueError that
\* names the first token that is no valid tag
validate_tags(tags) ==
    Bind(Split(tags), LAMBDA toks :
    Bind({k \in 1..Len(toks) : ~ ValidTag(toks[k])}, LAMBDA bad :
        IF tags = <<>> \/ bad = {}
        THEN [exc |-> "none", tags |-> tags, names |-> <<>>]
        ELSE [exc |-> "ValueError", tags |-> <<>>,
              names |-> toks[CHOOSE k \in bad : \A j \in bad : k <= j]]))

\* sanitize_tags(tags): the tag string, or ValueError at the first bad token
sanitize_tags(tags) ==
    IF \A tag \in Range(Split(tags)) : ValidTag(tag)
    THEN [exc |-> "none", tags |-> tags]
    ELSE [exc |-> "ValueError", tags |-> tags]

---------------------------------------------------------------------------
(* utils/todo_sync.py *)

TailWindow == 100

SyncDate == <<"2025-01-15">>    \* datetime.date.today().isoformat()

LitPriority == <<" | Priority: ">>
LitDue == <<" | Due: ">>
LitCreated == <<" | Created: ">>
LitCompleted == <<" | Completed: ">>

CheckboxDone == <<"-", " ", "[", "x", "]">>
CheckboxOpen == <<"-", " ", "[", " ", "]">>

Pending == <<"pending">>
Completed == <<"completed">>

Medium == <<"m", "e", "d", "i", "u", "m">>

\* the characters shlex.quote leaves unquoted: [\w@%+=:,./-], ASCII
SafeChars == Lower \cup Upper \cup Digits \cup {"_", "@", "%", "+", "=", ":", ",", ".", "/", "-"}

\* s.replace("'", "'\"'\"'")
EscapeQuotes(s) ==
    Concat([i \in 1..Len(s) |->
               IF s[i] = "'" THEN <<"'", "\"", "'", "\"", "'">> ELSE <<s[i]>>])

\* shlex.quote(s)
ShlexQuote(s) ==
    IF s = <<>> THEN <<"'", "'">>
    ELSE IF \A i \in 1..Len(s) : s[i] \in SafeChars THEN s
    ELSE <<"'">> \o EscapeQuotes(s) \o <<"'">>

\* s.split('T')[0]
BeforeT(s) ==
    IF "T" \notin Range(s) THEN s
    ELSE SubSeq(s, 1, (CHOOSE k \in 1..Len(s) :
                          s[k] = "T" /\ \A m \in 1..(k - 1) : s[m] # "T") - 1)

\* a loader that returns [] where load_tasks_from_yaml raises
LoadOrEmpty(src) == [exc |-> "none", tasks |-> src.tasks]

\* load_tasks_from_yaml(): the tasks, or the exception it raises
load_tasks_from_yaml(src) ==
    CASE src.kind = "absent" -> [exc |-> "FileNotFoundError", tasks |-> <<>>]
      [] src.kind = "unparsable" -> [exc |-> "YAMLError", tasks |-> <<>>]
      [] src.kind = "notdict" -> [exc |-> "ValueError", tasks |-> <<>>]
      [] src.kind = "tasksnotlist" -> [exc |-> "ValueError", tasks |-> <<>>]
      [] OTHER -> [exc |-> "none", tasks |-> src.tasks]

\* open(..., 'r') reads with universal newlines: \r\n and \r become \n
Universal(text) ==
    Bind(KeepAt(text, {i \in 1..Len(text) :
                          ~ (text[i] = "\n" /\ i > 1 /\ text[i - 1] = "\r")}), LAMBDA noLf :
        [i \in 1..Len(noLf) |-> IF noLf[i] = "\r" THEN "\n" ELSE noLf[i]])

\* f.readlines(): the lines, each with its line feed if it has one
ReadLines(text) ==
    Bind(Universal(text), LAMBDA t :
    Bind(SelectSeq([i \in 1..Len(t) |-> i], LAMBDA i : t[i] = "\n"), LAMBDA nl :
        [k \in 1..(Len(nl) + (IF t # <<>> /\ t[Len(t)] # "\n" THEN 1 ELSE 0)) |->
            SubSeq(t, IF k = 1 THEN 1 ELSE nl[k - 1] + 1,
                      IF k <= Len(nl) THEN nl[k] ELSE Len(t))]))

HasHashtag(line) == \E i \in 1..Len(line) : HashtagAt(line, i)

\* int(re.search(r'#task-(\d+)', line).group(1)): the leftmost match
FirstHashtag(line) ==
    Bind(CHOOSE k \in 1..Len(line) :
             HashtagAt(line, k) /\ \A m \in 1..(k - 1) : ~ HashtagAt(line, m), LAMBDA i :
        ToInt(SubSeq(line, i + 6, DigitsEnd(line, i + 6))))

\* lines[:]
TailAll(lines) == lines

\* lines[-100:]
Tail100(lines) ==
    IF Len(lines) <= TailWindow THEN lines
    ELSE SubSeq(lines, Len(lines) - TailWindow + 1, Len(lines))

\* for line in window: the number of the first line that matches, or 0
ScanForward(window) ==
    Bind({k \in 1..Len(window) : HasHashtag(window[k])}, LAMBDA hits :
        IF hits = {} THEN 0
        ELSE Bind(CHOOSE k \in hits : \A j \in hits : k <= j, LAMBDA k :
                 FirstHashtag(window[k])))

\* for line in reversed(window): the number of the first line that matches, or 0
ScanReversed(window) ==
    Bind({k \in 1..Len(window) : HasHashtag(window[k])}, LAMBDA hits :
        IF hits = {} THEN 0
        ELSE \* the last matching line of the window is the first one met
             Bind(CHOOSE k \in hits : \A j \in hits : j <= k, LAMBDA k :
                 FirstHashtag(window[k])))

\* get_max_task_id(): the watermark, and todo.md as the call leaves it
get_max_task_id(todo) ==
    CASE todo.kind = "missing" ->
            \* FileNotFoundError: Path('todo.md').touch()
            [exc |-> "none", value |-> 0, todo |-> [kind |-> "file", text |-> <<>>]]
      [] todo.kind = "dangling" ->
            \* todo.md is a symbolic link into a directory that does not exist:
            \* open raises FileNotFoundError and so does touch(), in the handler
            [exc |-> "FileNotFoundError", value |-> 0, todo |-> todo]
      [] OTHER ->
            [exc |-> "none",
             value |-> Bind(ReadLines(todo.text), LAMBDA lines : ScanReversed(Tail100(lines))),
             todo |-> todo]

\* [t for t in tasks if isinstance(t, dict)]
FilterMappings(tasks) == SelectSeq(tasks, LAMBDA t : t.isdict)

\* filter_pending_tasks(tasks)
filter_pending_tasks(tasks) ==
    SelectSeq(tasks, LAMBDA t :
        t.isdict /\ t.status.ty = "str" /\ t.status.s \in {Pending, Completed})

\* re.match(r'task-(\d+)', task_id): the number, or -1 when there is no match
PrefixNum(s) ==
    IF StartsAt(s, 1, TaskDash) /\ Len(s) >= 6 /\ s[6] \in Digits
    THEN ToInt(SubSeq(s, 6, DigitsEnd(s, 6)))
    ELSE -1

\* the exception that stops the rendering of a task before its line is built,
\* in the order of the statements of the try block
RenderRaises(task) ==
    CASE task.id.ty = "absent" -> "KeyError"                \* task['id']
      [] task.id.ty # "str" -> "TypeError"                  \* re.match on no string
      [] validate_task_id(task.id.s).exc # "none" -> "ValueError"
      [] Truthy(task.goal) /\ task.goal.ty # "str" -> "AttributeError"   \* goal.replace
      [] /\ Get(task.status, Str(Pending)) = Str(Completed)
         /\ Truthy(task.completed_at)
         /\ task.completed_at.ty # "str" -> "AttributeError"             \* completed_at.split
      [] Truthy(task.type) /\ task.type.ty # "str" -> "TypeError"        \* ' '.join(tags)
      [] OTHER -> "none"

\* ' '.join(f'#{tag}' for tag in tags_str.split())
Hashtags(toks) ==
    Concat([k \in 1..Len(toks) |->
               (IF k = 1 THEN <<>> ELSE <<" ">>) \o <<"#">> \o toks[k]])

\* the line without line += f" | Created: {sync_date}"
RenderLineNoCreated(task, toks) ==
    (IF Get(task.status, Str(Pending)) = Str(Completed) THEN CheckboxDone ELSE CheckboxOpen)
    \o <<" ">>
    \o (IF Truthy(task.goal) THEN SanitizeText(task.goal.s).goal ELSE <<>>)
    \o LitPriority
    \o ShlexQuote(PyStr(Get(task.priority, Str(Medium))))
    \o (IF ~ Truthy(task.due) THEN <<>>
        ELSE LitDue \o (IF task.due.ty = "str" THEN BeforeT(task.due.s) ELSE PyStr(task.due)))
    \o (IF Get(task.status, Str(Pending)) # Str(Completed) THEN <<>>
        ELSE LitCompleted \o (IF Truthy(task.completed_at)
                              THEN BeforeT(task.completed_at.s) ELSE SyncDate))
    \o (IF toks # <<>> THEN <<" ">> \o Hashtags(toks) ELSE <<>>)
    \o <<"\n">>

\* line = f"{checkbox} {goal} | Priority: {priority}" ... line += "\n"
RenderLine(task, toks) ==
    (IF Get(task.status, Str(Pending)) = Str(Completed) THEN CheckboxDone ELSE CheckboxOpen)
    \o <<" ">>
    \o (IF Truthy(task.goal) THEN SanitizeText(task.goal.s).goal ELSE <<>>)
    \o LitPriority
    \o ShlexQuote(PyStr(Get(task.priority, Str(Medium))))
    \o (IF ~ Truthy(task.due) THEN <<>>
        ELSE LitDue \o (IF task.due.ty = "str" THEN BeforeT(task.due.s) ELSE PyStr(task.due)))
    \o LitCreated \o SyncDate
    \o (IF Get(task.status, Str(Pending)) # Str(Completed) THEN <<>>
        ELSE LitCompleted \o (IF Truthy(task.completed_at)
                              THEN BeforeT(task.completed_at.s) ELSE SyncDate))
    \o (IF toks # <<>> THEN <<" ">> \o Hashtags(toks) ELSE <<>>)
    \o <<"\n">>

\* the body of the try block for one task: the text it writes, or the exception
Render(task) ==
    Bind(RenderRaises(task), LAMBDA e :
        IF e # "none" THEN [exc |-> e, line |-> <<>>, id |-> <<>>]
        ELSE Bind(sanitize_tags(task.id.s \o (IF Truthy(task.type)
                                              THEN <<" ">> \o task.type.s ELSE <<>>)),
                  LAMBDA st :
                 IF st.exc # "none" THEN [exc |-> st.exc, line |-> <<>>, id |-> <<>>]
                 ELSE Bind(Split(st.tags), LAMBDA toks :
                          [exc |-> "none", line |-> RenderLine(task, toks),
                           id |-> task.id.s])))

\* except (KeyError, ValueError) as e: print(f"WARNING: ... {safe_error_message(...)}")
\* the warning is printed, and the loop goes on, only if safe_error_message returns
SkipHandler == safe_error_message("task validation")

\* one pass of the loop body of append_new_tasks over task, from acc
AppendStep(acc, task) ==
    Bind(Render(task), LAMBDA r :
        IF r.exc = "none"
        THEN [acc EXCEPT !.text = @ \o r.line, !.count = @ + 1,
                         !.written = Append(@, r.id)]
        ELSE IF r.exc \in {"KeyError", "ValueError"}
        THEN IF SkipHandler.exc # "none"
             THEN [acc EXCEPT !.exc = SkipHandler.exc]
             ELSE [acc EXCEPT !.warned = @ + 1]
        ELSE [acc EXCEPT !.exc = r.exc])

RECURSIVE AppendLoop(_, _, _)
\* for task in new_tasks: an exception that leaves the loop body ends the loop
AppendLoop(tasks, k, acc) ==
    IF k > Len(tasks) \/ acc.exc # "none" THEN acc
    ELSE Bind(AppendStep(acc, tasks[k]), LAMBDA next : AppendLoop(tasks, k + 1, next))

\* append_new_tasks with open('todo.md', 'w') as f: the file is truncated
WriteNewTasks(todo, new_tasks) ==
    Bind(AppendLoop(new_tasks, 1,
             [exc |-> "none", text |-> <<>>, count |-> 0, written |-> <<>>, warned |-> 0]),
         LAMBDA r :
            [exc |-> r.exc, count |-> r.count, written |-> r.written, warned |-> r.warned,
             todo |-> [todo EXCEPT !.text = r.text]])

\* append_new_tasks(new_tasks): with open('todo.md', 'a') as f; what was written
\* before an exception left the block is flushed when the block closes f
append_new_tasks(todo, new_tasks) ==
    Bind(AppendLoop(new_tasks, 1,
             [exc |-> "none", text |-> <<>>, count |-> 0, written |-> <<>>, warned |-> 0]),
         LAMBDA r :
            [exc |-> r.exc, count |-> r.count, written |-> r.written, warned |-> r.warned,
             todo |-> [todo EXCEPT !.text = @ \o r.text]])

\* the selection with int(match.group(1)) >= max_id
SelectNewAtLeast(pending, max_id) ==
    IF \E i \in 1..Len(pending) : pending[i].id.ty \notin {"str", "absent"}
    THEN [exc |-> "TypeError", tasks |-> <<>>]
    ELSE [exc |-> "none",
          tasks |-> SelectSeq(pending, LAMBDA t : PrefixNum(t.id.s) >= max_id)]

\* for t in pending_tasks: task_id = t.get('id', ''); re.match(...)
\* a task_id that is no string makes re.match raise TypeError
SelectNew(pending, max_id) ==
    IF \E i \in 1..Len(pending) : pending[i].id.ty \notin {"str", "absent"}
    THEN [exc |-> "TypeError", tasks |-> <<>>]
    ELSE [exc |-> "none",
          tasks |-> SelectSeq(pending, LAMBDA t : PrefixNum(t.id.s) > max_id)]

Msg(m, n) == [msg |-> m, n |-> n]

NoRun == [ran |-> FALSE, exc |-> "none", how |-> "none", exit |-> 0, out |-> <<>>,
          before |-> [kind |-> "missing", text |-> <<>>], source |-> "absent",
          pending |-> <<>>, wm |-> 0, selected |-> <<>>,
          count |-> 0, written |-> <<>>, warned |-> 0, sameSource |-> FALSE]

\* print(f"Imported {count} new tasks"); skipped = len(pending_tasks) - count; ...
Summary(pending, count) ==
    <<Msg("Imported new tasks", count)>>
    \o (IF Len(pending) - count > 0
        THEN <<Msg("Skipped existing tasks", Len(pending) - count)>> ELSE <<>>)

\* the last statements of the try block: if new_tasks: ... else: ...
SyncAppend(r, todo) ==
    IF r.selected = <<>>
    THEN [run |-> [r EXCEPT !.out = <<Msg("No new tasks to import", -1)>>], todo |-> todo]
    ELSE Bind(append_new_tasks(todo, r.selected), LAMBDA app :
            [run |-> [r EXCEPT !.exc = app.exc, !.count = app.count,
                               !.written = app.written, !.warned = app.warned,
                               !.out = IF app.exc = "none"
                                       THEN Summary(r.pending, app.count) ELSE <<>>],
             todo |-> app.todo])

\* the try block of sync_tasks: run.exc is the exception that leaves it
SyncTry(src, todo) ==
    Bind([NoRun EXCEPT !.ran = TRUE, !.before = todo, !.source = src.kind], LAMBDA r0 :
    Bind(load_tasks_from_yaml(src), LAMBDA load :
        IF load.exc # "none" THEN [run |-> [r0 EXCEPT !.exc = load.exc], todo |-> todo]
        ELSE
    Bind(filter_pending_tasks(load.tasks), LAMBDA pending :
    Bind(get_max_task_id(todo), LAMBDA max :
        IF max.exc # "none"
        THEN [run |-> [r0 EXCEPT !.exc = max.exc, !.pending = pending], todo |-> max.todo]
        ELSE
    Bind(SelectNew(pending, max.value), LAMBDA sel :
        IF sel.exc # "none"
        THEN [run |-> [r0 EXCEPT !.exc = sel.exc, !.pending = pending, !.wm = max.value],
              todo |-> max.todo]
        ELSE SyncAppend([r0 EXCEPT !.pending = pending, !.wm = max.value,
                                   !.selected = sel.tasks], max.todo))))))

\* the except clauses of sync_tasks, for the exception exc
Handler(r, exc) ==
    IF exc = "FileNotFoundError"
    THEN [r EXCEPT !.how = "sys.exit", !.exit = 1,
                   !.out = @ \o <<Msg("ERROR: tasks.yml not found", -1),
                                  Msg("Create tasks.yml or run from project root", -1)>>]
    ELSE Bind(safe_error_message(IF exc = "ValueError" THEN "loading tasks.yml"
                                 ELSE "syncing tasks"), LAMBDA m :
             IF m.exc # "none"
             \* the handler itself raises: the interpreter prints a traceback and
             \* ends with status 1
             THEN [r EXCEPT !.exc = m.exc, !.how = "uncaught", !.exit = 1]
             ELSE [r EXCEPT !.how = "sys.exit", !.exit = 1,
                            !.out = @ \o <<Msg("Error", -1)>>])

\* sync_tasks(): the run's record and todo.md as the run leaves it
sync_tasks(src, todo) ==
    Bind(SyncTry(src, todo), LAMBDA t :
        IF t.run.exc = "none" THEN [t EXCEPT !.run.how = "return"]
        ELSE [t EXCEPT !.run = Handler(t.run, t.run.exc)])

---------------------------------------------------------------------------
(* The task sources and checklist documents of the model *)

Id(n) == TaskDash \o <<DigitSeq[n + 1]>>

\* {id: task-<n>, goal: "Fix", status: pending, priority: high}
Plain(id) ==
    [isdict |-> TRUE, id |-> id, goal |-> Str(<<"F", "i", "x">>), status |-> Str(Pending),
     priority |-> Str(<<"h", "i", "g", "h">>), due |-> Absent, completed_at |-> Absent,
     type |-> Absent]

Shapes(id) ==
    { Plain(id),
      \* completed, with a quoted completed_at, a due date and a type
      [Plain(id) EXCEPT !.status = Str(Completed),
                        !.completed_at = Str(<<"2025-01-10", "T", "08:00:00Z">>),
                        !.due = Str(<<"2025-02-01", "T", "10:00">>),
                        !.type = Str(<<"b", "u", "g">>), !.priority = Absent],
      \* completed, with an unquoted completed_at: a datetime
      [Plain(id) EXCEPT !.status = Str(Completed),
                        !.completed_at = Time(<<"2025-01-10 08:00:00+00:00">>)],
      \* a status that is not synchronised
      [Plain(id) EXCEPT !.status = Str(<<"cancelled">>)],
      \* a priority that holds a task hashtag
      [Plain(id) EXCEPT !.priority = Str(HashTask \o <<"1">>)],
      \* a due date that holds a line feed
      [Plain(id) EXCEPT !.due = Str(<<"2025-02-01", "\n", "x">>)],
      \* a type that is no valid tag
      [Plain(id) EXCEPT !.type = Str(<<"b", "!">>)],
      \* a goal that is a number
      [Plain(id) EXCEPT !.goal = Num(<<"7">>)],
      \* a goal in which a shell metacharacter splits a task hashtag
      [Plain(id) EXCEPT !.goal = Str(HashTask \o <<";", "1">>)] }

TaskPool ==
    UNION {Shapes(Str(Id(n))) : n \in 1..2}
    \cup { Plain(Str(Id(3))),
           Plain(Str(Id(2) \o <<"x">>)),        \* task-2x
           Plain(Str(Id(1) \o <<"\n">>)),       \* task-1 and a line feed
           Plain(Num(<<"3">>)),                 \* id: 3
           Plain(Absent),                       \* no id
           [Plain(Str(Id(1))) EXCEPT !.status = Absent],     \* no status
           [Plain(Str(Id(2))) EXCEPT !.priority = Absent],   \* no priority
           \* {id: task-1, goal: "Fix bug", status: pending, priority: high}
           [Plain(Str(Id(1))) EXCEPT !.goal = Str(<<"F", "i", "x", " ", "b", "u", "g">>)],
           [Plain(Absent) EXCEPT !.isdict = FALSE] }   \* an entry that is no mapping

Sources ==
    { [kind |-> k, tasks |-> <<>>] : k \in {"absent", "unparsable", "notdict", "tasksnotlist"} }
    \cup { [kind |-> "ok", tasks |-> ts] : ts \in SeqsUpTo(TaskPool, MaxTasks) }

InitialDocs ==
    { [kind |-> "missing", text |-> <<>>],
      [kind |-> "dangling", text |-> <<>>],
      [kind |-> "file", text |-> <<>>],
      \* one line of an earlier sync
      [kind |-> "file", text |-> <<"o", "l", "d", " ">> \o HashTask \o <<"1", "\n">>],
      \* a note whose last line has no line feed
      [kind |-> "file", text |-> <<"n", "o", "t", "e">>] }

Init ==
    /\ tasksYml \in Sources
    /\ todoMd \in InitialDocs
    /\ last = NoRun
    /\ log = <<>>
    /\ dirty = FALSE
    /\ san = SanIdle
    /\ call = NoCall
    /\ proc = NoProcs

\* one run of sync_tasks, from its first line to its return or exit
SyncTasks ==
    /\ Len(log) < MaxRuns
    /\ \E r \in {sync_tasks(tasksYml, todoMd)} :
           /\ todoMd' = r.todo
           /\ last' = [r.run EXCEPT !.sameSource = (Len(log) >= 1 /\ ~ dirty)]
           /\ log' = Append(log, r.run.written)
    /\ dirty' = FALSE
    /\ UNCHANGED <<tasksYml, san, call, proc>>

\* the upstream source adds a task at the end of tasks.yml
AddTask ==
    /\ tasksYml.kind = "ok"
    /\ Len(tasksYml.tasks) < MaxTasks
    /\ \E t \in TaskPool : tasksYml' = [tasksYml EXCEPT !.tasks = Append(@, t)]
    /\ dirty' = TRUE
    /\ UNCHANGED <<todoMd, last, log, san, call, proc>>

Next == SyncTasks \/ AddTask

Spec == Init /\ [][Next]_vars

---------------------------------------------------------------------------
(* The standalone sanitizer: sanitize_goal applied to a text, then to its  *)
(* own output.                                                             *)

Pieces ==
    { <<"a">>, <<" ">>, <<"\n">>, <<"\r">>, <<";">>, <<">">>,
      <<"-", " ", "[">>, <<"x", "]">>, <<" ", "]">>, HashTask, <<"1">> }

ShortGoals == {Concat(ps) : ps \in SeqsUpTo(Pieces, MaxPieces)}

LongGoals ==
    { pre \o Rep("a", n) \o post :
        pre \in {<<>>, <<" ">>},
        n \in (MAX_LENGTH - 1)..(MAX_LENGTH + 1),
        post \in {<<>>, <<" ">>, <<";">>} }

GoalInputs == ShortGoals \cup LongGoals

\* main(): sanitized = sanitize_goal(goal)
Sanitize ==
    /\ san.pass = 0
    /\ LET r == SanitizeText(san.input)
       IN  san' = [san EXCEPT !.pass = 1, !.goal = r.goal,
                              !.warnings = r.warnings, !.atDanger = r.atDanger,
                              !.first = r.goal]
    /\ UNCHANGED <<tasksYml, todoMd, last, log, dirty, call, proc>>

\* the sanitizer applied to its own output
SanitizeAgain ==
    /\ san.pass = 1
    /\ LET r == SanitizeText(san.goal)
       IN  san' = [san EXCEPT !.pass = 2, !.input = san.goal, !.goal = r.goal,
                              !.warnings = r.warnings, !.atDanger = r.atDanger]
    /\ UNCHANGED <<tasksYml, todoMd, last, log, dirty, call, proc>>

InitSanitize ==
    /\ san \in {[SanIdle EXCEPT !.input = g] : g \in GoalInputs}
    /\ tasksYml = [kind |-> "absent", tasks |-> <<>>]
    /\ todoMd = [kind |-> "missing", text |-> <<>>]
    /\ last = NoRun
    /\ log = <<>>
    /\ dirty = FALSE
    /\ call = NoCall
    /\ proc = NoProcs

NextSanitize == Sanitize \/ SanitizeAgain

SpecSanitize == InitSanitize /\ [][NextSanitize]_vars

---------------------------------------------------------------------------
(* The standalone watermark scanner: get_max_task_id on a checklist        *)
(* document of up to TailWindow + MaxHead + MaxTail - 1 lines.             *)

ScanLines ==
    { <<"\n">>,
      HashTask \o <<"1", "\n">>,
      HashTask \o <<"2", "\n">>,
      \* two hashtags in one line
      <<"x", " ">> \o HashTask \o <<"2", " ">> \o HashTask \o <<"1", "\n">>,
      \* no digits after the hyphen
      HashTask \o <<"\n">>,
      \* an identifier without its number sign
      TaskDash \o <<"9", "\n">> }

ScanDocs ==
    { [kind |-> "missing", text |-> <<>>] }
    \cup { [kind |-> "file",
            text |-> Concat(head) \o Rep("\n", blank) \o Concat(tail) \o last_] :
              head \in SeqsUpTo(ScanLines, MaxHead),
              blank \in {0, TailWindow - 2, TailWindow - 1},
              tail \in SeqsUpTo(ScanLines, MaxTail),
              \* the last line may lack its line terminator
              last_ \in {<<>>, HashTask \o <<"1">>} }

\* max_id = get_max_task_id()
CallGetMaxTaskId ==
    /\ call.fn = "none"
    /\ \E r \in {get_max_task_id(todoMd)} :
           /\ call' = [fn |-> "get_max_task_id", done |-> TRUE, arg |-> todoMd,
                       exc |-> r.exc, value |-> r.value]
           /\ todoMd' = r.todo
    /\ UNCHANGED <<tasksYml, last, log, dirty, san, proc>>

InitScan ==
    /\ todoMd \in ScanDocs
    /\ call = NoCall
    /\ tasksYml = [kind |-> "absent", tasks |-> <<>>]
    /\ last = NoRun
    /\ log = <<>>
    /\ dirty = FALSE
    /\ san = SanIdle
    /\ proc = NoProcs

NextScan == CallGetMaxTaskId

SpecScan == InitScan /\ [][NextScan]_vars

---------------------------------------------------------------------------
(* The standalone validators of todo_validation.py, each called once on a  *)
(* text.                                                                   *)

\* texts around the form task-<digits>
IdInputs ==
    { pre \o word \o num \o post :
        pre \in {<<>>, <<"x">>, <<" ">>, <<"\n">>},
        word \in {TaskDash, <<"t", "a", "s", "k">>, <<"T", "a", "s", "k", "-">>, <<>>},
        num \in {<<>>, <<"1">>, <<"0", "7">>, <<"1", "2", "3">>},
        post \in {<<>>, <<"\n">>, <<"\n", "\n">>, <<"\r">>, <<" ">>, <<"x">>, <<"-", "1">>} }

\* tags: valid ones, ones with a disallowed character, ones at and over the
\* length limit
TagInputs ==
    { <<"a">>, <<"A", "_", "-", "9">>, <<"b", "!">>,
      <<"b", "a", "d", "!", "t", "a", "g">>, <<"#">>,
      Rep("a", MAX_TAG_LENGTH), Rep("a", MAX_TAG_LENGTH + 1),
      Rep("a", MAX_TAG_LENGTH) \o <<"!">> }

\* tag strings: tags between runs of white space
TagStrings ==
    { pre \o Concat([k \in 1..Len(ts) |-> (IF k = 1 THEN <<>> ELSE sep) \o ts[k]]) \o post :
        pre \in {<<>>, <<" ">>},
        ts \in SeqsUpTo(TagInputs, MaxTags),
        sep \in {<<" ">>, <<" ", " ">>, <<"\n">>},
        post \in {<<>>, <<" ">>, <<"\n">>} }

\* names of path components: the project root p, its sibling pq, the links
\* out and lg, .git and a name that begins with it, dots
SegNames ==
    { <<"p">>, <<"p", "q">>, <<"e">>, <<"x">>, <<"o", "u", "t">>, <<"l", "g">>,
      <<".", "g", "i", "t">>, <<".", "g", "i", "t", "x">>,
      <<".">>, <<".", ".">>, <<"a", ".", ".", "b">> }

\* paths, relative and absolute, with and without a slash at the end
PathInputs ==
    { pre \o Concat([k \in 1..Len(segs) |-> (IF k = 1 THEN <<>> ELSE <<"/">>) \o segs[k]])
          \o post :
        pre \in {<<>>, <<"/">>},
        segs \in SeqsUpTo(SegNames, MaxSegs),
        post \in {<<>>, <<"/">>} }

\* validate_path(path)
CallValidatePath ==
    /\ call.fn = "none"
    /\ \E s \in PathInputs :
       \E r \in {validate_path(s)} :
           call' = [fn |-> "validate_path", done |-> TRUE, arg |-> s,
                    exc |-> r.exc, value |-> r.path, msg |-> r.msg]
    /\ UNCHANGED <<tasksYml, todoMd, last, log, dirty, san, proc>>

\* validate_task_id(task_id)
CallValidateTaskId ==
    /\ call.fn = "none"
    /\ \E s \in IdInputs :
       \E r \in {validate_task_id(s)} :
           call' = [fn |-> "validate_task_id", done |-> TRUE, arg |-> s,
                    exc |-> r.exc, value |-> r.id]
    /\ UNCHANGED <<tasksYml, todoMd, last, log, dirty, san, proc>>

\* validate_tags(tags)
CallValidateTags ==
    /\ call.fn = "none"
    /\ \E s \in TagStrings :
       \E r \in {validate_tags(s)} :
           call' = [fn |-> "validate_tags", done |-> TRUE, arg |-> s,
                    exc |-> r.exc, value |-> r.tags, names |-> r.names]
    /\ UNCHANGED <<tasksYml, todoMd, last, log, dirty, san, proc>>

InitValidate ==
    /\ call = NoCall
    /\ tasksYml = [kind |-> "absent", tasks |-> <<>>]
    /\ todoMd = [kind |-> "missing", text |-> <<>>]
    /\ last = NoRun
    /\ log = <<>>
    /\ dirty = FALSE
    /\ san = SanIdle
    /\ proc = NoProcs

NextValidate == CallValidateTaskId \/ CallValidateTags \/ CallValidatePath

SpecValidate == InitValidate /\ [][NextValidate]_vars

---------------------------------------------------------------------------
(* sync_tasks run as processes on one working directory: an instance reads  *)
(* tasks.yml and todo.md (the lines of sync_tasks before the append step),  *)
(* then appends; other instances may take their steps in between, and an    *)
(* instance may be killed while it appends.  tasks.yml does not change.     *)

\* the lines of sync_tasks from load_tasks_from_yaml() to the end of the loop
\* that fills new_tasks: the watermark, the selected tasks, todo.md as the
\* scanner leaves it, or the exception that was raised
SyncPrepare(src, todo) ==
    Bind(load_tasks_from_yaml(src), LAMBDA load :
        IF load.exc # "none"
        THEN [exc |-> load.exc, stage |-> "load", wm |-> 0, selected |-> <<>>, todo |-> todo]
        ELSE
    Bind(get_max_task_id(todo), LAMBDA max :
        IF max.exc # "none"
        THEN [exc |-> max.exc, stage |-> "scan", wm |-> 0, selected |-> <<>>, todo |-> max.todo]
        ELSE
    Bind(SelectNew(filter_pending_tasks(load.tasks), max.value), LAMBDA sel :
        [exc |-> sel.exc, stage |-> "select", wm |-> max.value, selected |-> sel.tasks,
         todo |-> max.todo])))

\* how an instance ends when exc left the try block of sync_tasks
ProcFailed(pr, exc, stage) ==
    Bind(Handler(NoRun, exc), LAMBDA h :
        [pr EXCEPT !.pc = "failed", !.stage = stage, !.exc = h.exc, !.how = h.how,
                   !.exit = h.exit])

\* the tasks of the model's processes: well-formed ones, one whose completed_at
\* is an unquoted timestamp, one whose identifier is not valid, one whose
\* priority holds a task hashtag
ProcPool ==
    { Plain(Str(Id(1))), Plain(Str(Id(2))),
      [Plain(Str(Id(1))) EXCEPT !.status = Str(Completed),
                                !.completed_at = Time(<<"2025-01-10 08:00:00+00:00">>)],
      Plain(Str(Id(2) \o <<"x">>)),
      [Plain(Str(Id(3))) EXCEPT !.priority = Str(HashTask \o <<"1">>)] }

ProcSources ==
    { [kind |-> k, tasks |-> <<>>] : k \in {"absent", "notdict"} }
    \cup { [kind |-> "ok", tasks |-> ts] : ts \in SeqsUpTo(ProcPool, MaxTasks) }

ProcDocs ==
    { [kind |-> "missing", text |-> <<>>],
      [kind |-> "file", text |-> <<>>],
      [kind |-> "file", text |-> <<"o", "l", "d", " ">> \o HashTask \o <<"1", "\n">>] }

\* an instance runs sync_tasks up to the append step
ProcStart(p) ==
    /\ proc[p].pc = "idle"
    /\ \E r \in {SyncPrepare(tasksYml, todoMd)} :
       \E pr \in {[proc[p] EXCEPT !.peers = [q \in Procs |-> proc[q].pc],
                                  !.wm = r.wm, !.selected = r.selected]} :
           /\ todoMd' = r.todo
           /\ proc' = [proc EXCEPT ![p] =
                          IF r.exc # "none" THEN ProcFailed(pr, r.exc, r.stage)
                          ELSE IF r.selected = <<>>
                          THEN [pr EXCEPT !.pc = "returned", !.how = "return"]
                          ELSE [pr EXCEPT !.pc = "scanned"]]
    /\ UNCHANGED <<tasksYml, last, log, dirty, san, call>>

\* count = append_new_tasks(new_tasks), to the return or the exception
ProcAppend(p) ==
    /\ proc[p].pc = "scanned"
    /\ \E app \in {append_new_tasks(todoMd, proc[p].selected)} :
       \E pr \in {[proc[p] EXCEPT !.written = app.written]} :
           /\ todoMd' = app.todo
           /\ proc' = [proc EXCEPT ![p] =
                          IF app.exc # "none" THEN ProcFailed(pr, app.exc, "append")
                          ELSE [pr EXCEPT !.pc = "returned", !.how = "return"]]
    /\ UNCHANGED <<tasksYml, last, log, dirty, san, call>>

\* the instance is killed in the loop of append_new_tasks, after it has gone
\* through the first j tasks: f is not closed, and todo.md has the lines that
\* were flushed, which are the first lines written (each f.write(line) reaches
\* the file whole or not at all)
ProcKilled(p) ==
    /\ proc[p].pc = "scanned"
    /\ \E j \in 0..Len(proc[p].selected) :
       \E r \in {append_new_tasks(todoMd, SubSeq(proc[p].selected, 1, j))} :
           /\ r.exc = "none"
           /\ todoMd' = r.todo
           /\ proc' = [proc EXCEPT ![p] = [@ EXCEPT !.pc = "killed", !.stage = "append",
                                                    !.how = "killed",
                                                    !.written = r.written]]
    /\ UNCHANGED <<tasksYml, last, log, dirty, san, call>>

InitProcs ==
    /\ tasksYml \in ProcSources
    /\ todoMd \in ProcDocs
    /\ proc = NoProcs
    /\ last = NoRun
    /\ log = <<>>
    /\ dirty = FALSE
    /\ san = SanIdle
    /\ call = NoCall

NextProcs == \E p \in Procs : ProcStart(p) \/ ProcAppend(p) \/ ProcKilled(p)

SpecProcs == InitProcs /\ [][NextProcs]_vars

---------------------------------------------------------------------------
(* What a run appended *)

\* the text the last run added after what todo.md held before it
AppendedText == SubSeq(todoMd.text, Len(last.before.text) + 1, Len(todoMd.text))

\* the line terminators in the text the last run added
LinesAppended == Count(Universal(AppendedText), "\n")

\* the matches of #task-(\d+) in line whose number is n
HashtagCount(line, n) ==
    Cardinality({k \in 1..Len(line) :
                    HashtagAt(line, k)
                    /\ ToInt(SubSeq(line, k + 6, DigitsEnd(line, k + 6))) = n})

\* the identifier is task-<digits> and nothing else
ExactId(v) ==
    v.ty = "str" /\ ValidTaskId(v.s) /\ v.s[Len(v.s)] \in Digits

\* every entry is a task with an exact identifier, in increasing order of the numbers
MonotoneSource ==
    /\ tasksYml.kind = "ok"
    /\ \A i \in 1..Len(tasksYml.tasks) :
           tasksYml.tasks[i].isdict /\ ExactId(tasksYml.tasks[i].id)
    /\ \A i, j \in 1..Len(tasksYml.tasks) :
           i < j => PrefixNum(tasksYml.tasks[i].id.s) < PrefixNum(tasksYml.tasks[j].id.s)

\* the source holds exactly task-1 ... task-N, N >= 1, all pending or completed
OneToN ==
    /\ tasksYml.kind = "ok"
    /\ Len(tasksYml.tasks) >= 1
    /\ \A i \in 1..Len(tasksYml.tasks) :
           /\ tasksYml.tasks[i].isdict
           /\ tasksYml.tasks[i].status \in {Str(Pending), Str(Completed)}
           /\ tasksYml.tasks[i].id.ty = "str"
    /\ {tasksYml.tasks[i].id.s : i \in 1..Len(tasksYml.tasks)}
           = {Id(n) : n \in 1..Len(tasksYml.tasks)}
    /\ Cardinality({tasksYml.tasks[i].id.s : i \in 1..Len(tasksYml.tasks)})
           = Len(tasksYml.tasks)

Printed(m) == \E i \in 1..Len(last.out) : last.out[i].msg = m

---------------------------------------------------------------------------
(* The claims *)

\* C1 (idempotence of sync_tasks): when sync_tasks has run twice in succession
\* with the task source unchanged between the runs, the second run appended
\* nothing: todo.md after it is todo.md before it.
C1_Idempotent ==
    (Len(log) >= 2 /\ last.sameSource) => todoMd.text = last.before.text

\* C2 (at most one append per identifier): while the source holds only exact
\* task-N identifiers in increasing order (it only grew by larger identifiers),
\* no identifier is written by two different runs.
C2_AtMostOnce ==
    MonotoneSource =>
        \A i, j \in 1..Len(log) : i < j => Range(log[i]) \cap Range(log[j]) = {}

\* C3 (full sync): the source holds exactly task-1 ... task-N, all pending or
\* completed, and todo.md was empty: one run appends exactly N lines, and the
\* i-th line holds the hashtag of the i-th task exactly once.
C3_FullSync ==
    ( /\ Len(log) = 1 /\ ~ dirty /\ OneToN
      /\ last.before.kind \in {"file", "missing"} /\ last.before.text = <<>> )
    => \E lines \in {ReadLines(todoMd.text)} :
           /\ Len(lines) = Len(tasksYml.tasks)
           /\ \A i \in 1..Len(lines) :
                  HashtagCount(lines[i], PrefixNum(tasksYml.tasks[i].id.s)) = 1

\* C4 (the output of sanitize_goal holds none of the stripped constructs): no
\* line feed or carriage return, no checkbox "- [ ]" or "- [x]", no #task-<digits>.
C4_NoStrippedConstruct ==
    san.pass >= 1 =>
        /\ "\n" \notin Range(san.goal) /\ "\r" \notin Range(san.goal)
        /\ ~ \E i \in 1..Len(san.goal) : CheckboxAt(san.goal, i)
        /\ ~ \E i \in 1..Len(san.goal) : HashtagAt(san.goal, i)

\* C5 (sanitizer idempotence): sanitize_goal applied to its own output returns
\* that output.
C5_SanitizerIdempotent ==
    san.pass = 2 => san.goal = san.first

\* C6 (injection defusal): none of ; | & $ ` < > is in the output of
\* sanitize_goal, and each of them has exactly one warning if it occurs in the
\* goal that reaches the loop over dangerous_chars, and no warning if it does not.
C6_InjectionDefusal ==
    san.pass >= 1 =>
        \A c \in Range(dangerous_chars) :
            /\ c \notin Range(san.goal)
            /\ Count(san.warnings, c) = (IF c \in Range(san.atDanger) THEN 1 ELSE 0)

\* C6's case: a goal with ";" twice and ">" once got one warning for each of the two
C6_Witness ==
    /\ san.pass = 1
    /\ Count(san.atDanger, ";") = 2
    /\ Count(san.atDanger, ">") = 1
    /\ san.warnings = <<";", ">">>

\* C7 (one task, one line): the text a run of append_new_tasks adds holds as
\* many line terminators as the run wrote tasks.
C7_OneTaskOneLine ==
    last.ran => LinesAppended = last.count

\* C8 (a task that cannot be rendered does not abort the batch): a run whose
\* selected tasks include one that cannot be rendered skips it with a warning,
\* writes every selected task that can be rendered, and returns with exit code 0.
C8_BatchCompletes ==
    (last.ran /\ \E i \in 1..Len(last.selected) : Render(last.selected[i]).exc # "none")
    => \E ok \in {SelectSeq(last.selected, LAMBDA t : Render(t).exc = "none")} :
           /\ last.exit = 0
           /\ last.how = "return"
           /\ last.written = [i \in 1..Len(ok) |-> ok[i].id.s]
           /\ last.warned = Len(last.selected) - Len(ok)

\* C9 (terminal failures): a run exits with code 1 when tasks.yml is absent, is
\* no mapping, has tasks that are no sequence, or an exception was raised, and
\* with code 0 otherwise; "tasks.yml not found" is printed exactly when
\* tasks.yml is absent.
C9_TerminalFailures ==
    last.ran =>
        /\ last.exit = (IF last.source \in {"absent", "notdict", "tasksnotlist"}
                           \/ last.exc # "none" THEN 1 ELSE 0)
        /\ Printed("ERROR: tasks.yml not found") <=> last.source = "absent"

\* C10 (summary): a run that ends with exit code 0 and appended N lines prints
\* "No new tasks to import" exactly when N = 0 and "Imported <N> new tasks"
\* exactly when N >= 1; it never prints "Imported 0 new tasks".
C10_Summary ==
    (last.ran /\ last.exit = 0) =>
        /\ Printed("No new tasks to import") <=> LinesAppended = 0
        /\ Printed("Imported new tasks") <=> LinesAppended >= 1
        /\ \A i \in 1..Len(last.out) :
               last.out[i].msg = "Imported new tasks"
                   => last.out[i].n = LinesAppended /\ last.out[i].n # 0

\* C11 (skipped count): the M of "(Skipped <M> existing tasks)" is the number of
\* pending or completed tasks whose identifier has a numeric suffix at or below
\* the watermark; no other task is counted.
C11_SkippedCount ==
    \A i \in 1..Len(last.out) :
        last.out[i].msg = "Skipped existing tasks"
            => last.out[i].n = Len(SelectSeq(last.pending, LAMBDA t :
                                      /\ t.id.ty = "str"
                                      /\ PrefixNum(t.id.s) >= 0
                                      /\ PrefixNum(t.id.s) <= last.wm))

\* a line without its line terminator
LineText(line) ==
    IF line # <<>> /\ line[Len(line)] = "\n" THEN SubSeq(line, 1, Len(line) - 1) ELSE line

\* C12 (append-only checklist): after a run, ended by a return or by an
\* exception, every line todo.md held before the run is still there, with the
\* same text at the same position; what the run added are lines after them.
C12_AppendOnly ==
    last.ran =>
        \E b \in {ReadLines(last.before.text)} :
        \E a \in {ReadLines(todoMd.text)} :
            /\ Len(b) <= Len(a)
            /\ \A i \in 1..Len(b) : LineText(a[i]) = LineText(b[i])

\* the lines of the scanned document, by index, that are among its last 100
InWindow(lines) == {k \in 1..Len(lines) : k > Len(lines) - 100}

\* the numbers of all the matches of #task-(\d+) in a line
HashNums(line) ==
    {ToInt(SubSeq(line, i + 6, DigitsEnd(line, i + 6))) :
        i \in {k \in 1..Len(line) : HashtagAt(line, k)}}

\* C13 (watermark scanner result): get_max_task_id returns the number of the
\* first match of #task-<digits> in the last line, among the last 100 lines of
\* todo.md, that has a match; it returns 0 when todo.md is missing or empty or
\* none of these lines has a match.  Lines before the last 100 do not count,
\* and neither does a larger number in an earlier line of the window.
C13_ScannerResult ==
    call.fn = "get_max_task_id" =>
        \E lines \in {ReadLines(call.arg.text)} :
        \E hits \in {{k \in InWindow(lines) : HasHashtag(lines[k])}} :
            /\ call.exc = "none"
            /\ hits = {} => call.value = 0
            /\ hits # {} =>
                   \E k \in hits :
                       /\ \A j \in hits : j <= k
                       /\ call.value = FirstHashtag(lines[k])

\* C13's case: a document of more than 100 lines with a hashtag before the
\* window, and in the window #task-2 above #task-1: the scanner returned 1
C13_Witness ==
    /\ call.fn = "get_max_task_id"
    /\ \E lines \in {ReadLines(call.arg.text)} :
           /\ Len(lines) > 100
           /\ HasHashtag(lines[1])
           /\ \E j, k \in InWindow(lines) :
                  j < k /\ HashNums(lines[j]) = {2} /\ HashNums(lines[k]) = {1}
    /\ call.value = 1

\* C14 as stated (watermark as a maximum): the watermark is the highest number
\* among the hashtags in the last 100 lines of todo.md (0 when there is none).
C14_WatermarkIsMax ==
    call.fn = "get_max_task_id" =>
        \E lines \in {ReadLines(call.arg.text)} :
        \E nums \in {UNION {HashNums(lines[k]) : k \in InWindow(lines)}} :
            /\ nums = {} => call.value = 0
            /\ nums # {} => call.value \in nums /\ \A n \in nums : n <= call.value

\* every line of the window holds at most one hashtag, and the numbers of the
\* hashtags never decrease from a line to a later one
WindowOrdered(lines) ==
    /\ \A k \in InWindow(lines) : Cardinality({i \in 1..Len(lines[k]) : HashtagAt(lines[k], i)}) <= 1
    /\ \A j, k \in InWindow(lines) :
           j < k => \A m \in HashNums(lines[j]) : \A n \in HashNums(lines[k]) : m <= n

\* C14 as amended: when every line of the last 100 holds at most one hashtag
\* and the numbers never decrease from a line to a later one, the watermark is
\* the highest number among the hashtags of the last 100 lines (0 when there
\* is none).
C14_MaxWhenOrdered ==
    call.fn = "get_max_task_id" =>
        \E lines \in {ReadLines(call.arg.text)} :
            WindowOrdered(lines) =>
                \E nums \in {UNION {HashNums(lines[k]) : k \in InWindow(lines)}} :
                    /\ nums = {} => call.value = 0
                    /\ nums # {} => call.value \in nums /\ \A n \in nums : n <= call.value

\* C14's case: #task-1 above #task-2 in the window, one hashtag per line: the
\* watermark is 2
C14_Witness ==
    /\ call.fn = "get_max_task_id"
    /\ call.value = 2
    /\ \E lines \in {ReadLines(call.arg.text)} :
           /\ WindowOrdered(lines)
           /\ \E j, k \in InWindow(lines) :
                  j < k /\ HashNums(lines[j]) = {1} /\ HashNums(lines[k]) = {2}

\* a mapping whose status is exactly pending or exactly completed
Candidate(t) == t.isdict /\ t.status \in {Str(Pending), Str(Completed)}

\* C15 (status filter): a run selects only mappings whose status is exactly
\* pending or completed and writes only tasks it selected; a source without
\* such a record gets nothing appended, whatever the identifiers of its records.
C15_StatusFilter ==
    last.ran =>
        /\ \A i \in 1..Len(last.selected) : Candidate(last.selected[i])
        /\ Len(last.written) <= Len(last.selected)
        /\ \A k \in 1..Len(last.written) :
               \E i \in 1..Len(last.selected) :
                   last.selected[i].id = Str(last.written[k])
        /\ (~ dirty /\ \A i \in 1..Len(tasksYml.tasks) : ~ Candidate(tasksYml.tasks[i]))
               => (todoMd.text = last.before.text /\ last.written = <<>>)

\* C15's case: the source holds a cancelled task whose number is above the
\* watermark; the run returned and appended nothing
C15_Witness ==
    /\ last.ran /\ ~ dirty /\ last.how = "return"
    /\ \E i \in 1..Len(tasksYml.tasks) :
           /\ tasksYml.tasks[i].status = Str(<<"cancelled">>)
           /\ tasksYml.tasks[i].id.ty = "str"
           /\ PrefixNum(tasksYml.tasks[i].id.s) > last.wm
    /\ Printed("No new tasks to import")
    /\ todoMd.text = last.before.text

\* the priorities of the task data model
Priorities ==
    { <<"c", "r", "i", "t", "i", "c", "a", "l">>, <<"h", "i", "g", "h">>,
      <<"m", "e", "d", "i", "u", "m">>, <<"l", "o", "w">> }

\* a pending task of the data model without due and type: an identifier
\* task-<digits>, a goal that is a text, a priority of the closed set or none
PendingTask(t) ==
    /\ t.isdict /\ ExactId(t.id)
    /\ t.status = Str(Pending)
    /\ t.goal.ty = "str"
    /\ t.priority = Absent \/ (t.priority.ty = "str" /\ t.priority.s \in Priorities)
    /\ t.due = Absent /\ t.type = Absent

\* - [ ] <sanitized goal> | Priority: <priority> | Created: <sync date> #<id>
PendingLine(t) ==
    <<"-", " ", "[", " ", "]", " ">> \o SanitizeText(t.goal.s).goal
    \o <<" | Priority: ">> \o (IF t.priority = Absent THEN Medium ELSE t.priority.s)
    \o <<" | Created: ">> \o SyncDate
    \o <<" ", "#">> \o t.id.s \o <<"\n">>

\* {tasks: [{id: task-1, goal: 'Fix bug', status: pending, priority: high}]}
FixBugSource ==
    [kind |-> "ok",
     tasks |-> <<[isdict |-> TRUE, id |-> Str(<<"t", "a", "s", "k", "-", "1">>),
                  goal |-> Str(<<"F", "i", "x", " ", "b", "u", "g">>),
                  status |-> Str(<<"pending">>), priority |-> Str(<<"h", "i", "g", "h">>),
                  due |-> Absent, completed_at |-> Absent, type |-> Absent]>>]

CompletedTask(t) ==
    /\ t.isdict /\ ExactId(t.id)
    /\ t.status = Str(Completed)
    /\ t.goal.ty = "str"
    /\ t.priority.ty \in {"absent", "str"}
    /\ t.due.ty \in {"absent", "str"} /\ t.type.ty \in {"absent", "str"}
    /\ t.completed_at.ty \in {"absent", "str", "time"}

\* the date of the Completed field: the date-only part of completed_at (the
\* first piece of a timestamp of the model), the sync date when it is absent
CompletedDate(t) ==
    IF t.completed_at = Absent THEN SyncDate ELSE <<"2025-01-10">>

\* C17 (completed task rendering): a run whose selected tasks are completed
\* tasks writes each of them as a line that begins with "- [x]" and holds
\* "| Completed: <date>" right after the Created field, <date> being the
\* date-only part of completed_at, or the sync date when completed_at is
\* absent; and no line of a pending task holds a Completed field.
C17_CompletedRendering ==
    /\ ( /\ last.ran /\ last.selected # <<>>
         /\ \A i \in 1..Len(last.selected) : CompletedTask(last.selected[i]) )
       => \E lines \in {ReadLines(AppendedText)} :
              /\ Len(lines) = Len(last.selected)
              /\ \A i \in 1..Len(lines) :
                     /\ StartsAt(lines[i], 1, <<"-", " ", "[", "x", "]", " ">>)
                     /\ Occurs(lines[i], <<" | Created: ">> \o SyncDate \o <<" | Completed: ">>
                                          \o CompletedDate(last.selected[i]) \o <<" ", "#">>)
    /\ ( /\ last.ran /\ last.selected # <<>>
         /\ \A i \in 1..Len(last.selected) : PendingTask(last.selected[i]) )
       => " | Completed: " \notin Range(AppendedText)

\* the only statement of the try block that raises for task is sanitize_tags
BadTagOnly(t) == RenderRaises(t) = "none" /\ Render(t).exc = "ValueError"

\* C18 (tag validation is fail-fast, in append_new_tasks): in a run whose
\* selected tasks can all be rendered except some whose type is no valid tag,
\* these and only these are skipped with a warning: the others are written and
\* the run returns with exit code 0.
C18_TagFailFast ==
    ( /\ last.ran
      /\ \E i \in 1..Len(last.selected) : BadTagOnly(last.selected[i])
      /\ \A i \in 1..Len(last.selected) :
             BadTagOnly(last.selected[i]) \/ Render(last.selected[i]).exc = "none" )
    => \E ok \in {SelectSeq(last.selected, LAMBDA t : ~ BadTagOnly(t))} :
           /\ last.how = "return" /\ last.exit = 0
           /\ last.written = [i \in 1..Len(ok) |-> ok[i].id.s]
           /\ last.warned = Len(last.selected) - Len(ok)

\* validate_tags alone does what C18 says of it: it returns the tag string
\* exactly when every token holds only letters, digits, "_" and "-" and has
\* at most 32 characters, and its error names the first token that does not.
ValidateTagsExact ==
    call.fn = "validate_tags" =>
        \E toks \in {Split(call.arg)} :
        \E bad \in {{k \in 1..Len(toks) :
                        \/ Len(toks[k]) > 32
                        \/ \E i \in 1..Len(toks[k]) :
                               toks[k][i] \notin Lower \cup Upper \cup Digits \cup {"_", "-"}}} :
            /\ bad = {} => (call.exc = "none" /\ call.value = call.arg)
            /\ bad # {} => /\ call.exc = "ValueError"
                           /\ \E k \in bad : call.names = toks[k] /\ \A j \in bad : k <= j

\* the whole text is task- and then one or more digits
TaskDigits(s) ==
    /\ Len(s) >= 6
    /\ SubSeq(s, 1, 5) = <<"t", "a", "s", "k", "-">>
    /\ \A i \in 6..Len(s) : s[i] \in Digits

\* C19 (identifier validation is exact): validate_task_id accepts a text if and
\* only if the whole text is task- followed by one or more digits, with nothing
\* before or after, a line terminator at the end included.
C19_ExactValidation ==
    call.fn = "validate_task_id" => (call.exc = "none" <=> TaskDigits(call.arg))

\* C20 (path containment): validate_path rejects every input that holds "..",
\* and a path it returns is the project root or a path below it, component by
\* component (not a sibling whose name begins with the root's name), with no
\* component .git.
C20_PathContainment ==
    call.fn = "validate_path" =>
        /\ (\E i \in 1..(Len(call.arg) - 1) : call.arg[i] = "." /\ call.arg[i + 1] = ".")
               => call.exc # "none"
        /\ call.exc = "none" =>
               \E segs \in {SplitSlash(call.value)} :
               \E root \in {SplitSlash(Cwd)} :
                   /\ Len(segs) >= Len(root)
                   /\ SubSeq(segs, 1, Len(root)) = root
                   /\ <<".", "g", "i", "t">> \notin Range(segs)

\* the instance stopped in the append step: it was killed there, or an
\* exception raised there ended it
StoppedInAppend(pr) == pr.stage = "append" /\ pr.pc \in {"killed", "failed"}

\* q ran sync_tasks to its end after p had stopped in the append step, and no
\* other instance ran
RerunAfterCrash(p, q) ==
    /\ p # q
    /\ StoppedInAppend(proc[p])
    /\ proc[q].peers[p] \in {"killed", "failed"}
    /\ proc[q].pc \in {"returned", "failed"}
    /\ \A r \in Procs \ {p, q} : proc[r].pc = "idle"

\* C21 (crash recovery): a run of sync_tasks stopped in the append step, after
\* it had written the first k of its selected lines or through an exception
\* raised while it rendered a task, and sync_tasks was run again on the same
\* source, whose identifiers are in increasing order: no task was written by
\* both runs, and every task the first run had selected and not written (and
\* that can be rendered) was written by the second run.
C21_CrashRecovery ==
    \A p, q \in Procs :
        (MonotoneSource /\ RerunAfterCrash(p, q)) =>
            /\ Range(proc[p].written) \cap Range(proc[q].written) = {}
            /\ \A i \in 1..Len(proc[p].selected) :
                   ( /\ Render(proc[p].selected[i]).exc = "none"
                     /\ proc[p].selected[i].id.s \notin Range(proc[p].written) )
                   => proc[p].selected[i].id.s \in Range(proc[q].written)

\* the lines of todo.md that hold the hashtag of the identifier id
LinesWithId(id) ==
    Bind(ReadLines(todoMd.text), LAMBDA lines :
        {k \in 1..Len(lines) : HashtagCount(lines[k], PrefixNum(id)) >= 1})

\* q computed its watermark when p had computed its own and had not yet
\* appended; no other instance ran
ScannedTogether(p, q) ==
    /\ p # q
    /\ proc[q].peers[p] = "scanned"
    /\ proc[q].pc # "idle"
    /\ \A r \in Procs \ {p, q} : proc[r].pc = "idle"

C23_FailedLoadFrame ==
    (last.ran /\ last.source \in {"absent", "notdict", "tasksnotlist"}) =>
        /\ last.exit = 1 /\ last.how \in {"sys.exit", "uncaught"}
        /\ last.wm = 0 /\ last.selected = <<>> /\ last.written = <<>>
        /\ todoMd = last.before

\* C23's case: a run on a tasks.yml that is no mapping, with no todo.md, has
\* failed and there is still no todo.md
C23_Witness ==
    /\ last.ran /\ last.source = "notdict"
    /\ last.before.kind = "missing"
    /\ last.exit = 1
    /\ todoMd.kind = "missing"

\* the number get_max_task_id reads from a document: the first match in its
\* last matching line among the last 100 (0 when there is none)
LastMatch(todo) == ScanReversed(Tail100(ReadLines(todo.text)))

\* C24 (the watermark permanently excludes lower identifiers): every run
\* writes only tasks whose numeric suffix is strictly greater than the
\* watermark of that run, which is the number read from the last matching line
\* of todo.md as the run found it; and a run after a run whose watermark was W
\* writes no task with a suffix at or below W if its own watermark is not
\* lower than W, whatever the source holds by then.
C24_WatermarkExcludes ==
    [][ log' # log =>
          /\ \A k \in 1..Len(last'.written) : PrefixNum(last'.written[k]) > last'.wm
          /\ last'.written # <<>> => last'.wm = LastMatch(todoMd)
          /\ (last.ran /\ last'.wm >= last.wm) =>
                 \A k \in 1..Len(last'.written) : PrefixNum(last'.written[k]) > last.wm
      ]_vars

\* C24's case: a first run wrote task-2, task-1 was then added to the source,
\* and the second run, with watermark 2, returned without writing task-1,
\* which no run has written
C24_Witness ==
    /\ Len(log) = 2 /\ ~ dirty /\ last.how = "return"
    /\ log[1] = <<Id(2)>>
    /\ last.wm = 2
    /\ \E i \in 1..Len(tasksYml.tasks) : tasksYml.tasks[i] = Plain(Str(Id(1)))
    /\ last.written = <<>>
    /\ todoMd.text = last.before.text

====
